---- MODULE Spec2Model ----
(***************************************************************************)
(* Model of the lsif-tsc driver: run (src/src/main.ts:202-273), its        *)
(* rejection handler (279-282), the recursive processProject (89-200),     *)
(* the identifier generator (82-87), the per-project language service host *)
(* with its snapshot cache (132-177) and the emitter (src/src/emitter.ts). *)
(*                                                                         *)
(* A project invocation is named by its reference path from the root: the  *)
(* root is <<>>, and the i-th resolved reference of p is Append(p, i).     *)
(* The program is single threaded; the stack variable is the chain of      *)
(* suspended processProject calls, the last frame being the running one.   *)
(***************************************************************************)
EXTENDS Integers, Sequences, FiniteSets, TLC

\* Bounds of the model.
MaxDepth == 2        \* depth of the project-reference tree below the root
MaxRefs == 2         \* resolved-reference slots a program may report
MaxEmit == 2         \* elements emitted in one run
MaxProjects == 3     \* processProject invocations in one run
MaxRequests == 2     \* snapshot requests in one run
MaxFsChanges == 1    \* changes of the file on disk during one run
NumContents == 2     \* distinct contents the file may have

VARIABLES
    pc,          \* position of run: "start", "running", "rejected", "done", "failed"
    exitCode,    \* process.exitCode (0 while unset)
    options,     \* the shared Options object
    sink,        \* the file descriptor of options.out: "unopened" or "open"
    opens,       \* number of fs.openSync calls
    counter,     \* the counter captured by the identifier generator
    out,         \* the lines written to the sink
    exportLinker,\* whether run constructed an ExportLinker
    stack,       \* the suspended and running processProject calls
    fs,          \* the file on disk: 0 absent, otherwise its content
    fsChanges,   \* how often the file changed during the run
    drawn,       \* history: every identifier drawn, in order, with who drew it
    emitted,     \* history: every element handed to emit, in call order
    visits,      \* history: every visitor invocation with its dependsOn argument
    returned,    \* history: what each finished processProject call returned
    programs,    \* history: the resolved references each obtained program reported
    requests,    \* history: every snapshot request with its answer
    fault,       \* history: the fault that rejected run, or "none"
    packageJson, \* whether run read a package manifest
    made,        \* history: how many of each shared object run has constructed
    typings      \* history: the calls of the typings installer, and the last one

vars == <<pc, exitCode, options, sink, opens, counter, out, exportLinker, stack,
          fs, fsChanges, drawn, emitted, visits, returned, programs, requests, fault,
          packageJson, made, typings>>

hist == <<drawn, emitted, visits, returned, programs, requests>>

Undefined == "undefined"

\* process.exitCode while nothing has set it: the process exits with 0
NoCode == 0

\* process.exitCode = 1 at line 100
ExitMissing == 1

\* an abort for no input files that leaves the exit code alone
ExitNoFiles_unset == NoCode

\* process.exitCode = 1 at line 108
ExitNoFiles == 1

\* an abort for a missing program that leaves the exit code alone
ExitNoProgram_unset == NoCode

\* process.exitCode = -1 at line 182
ExitNoProgram == -1

\* a rejection handler that reports the fault and leaves the exit code alone
ExitRejected_unset == NoCode

\* process.exitCode = 1 at line 281
ExitRejected == 1

\* no fault has rejected run
NoFault == [kind |-> "none", node |-> <<>>]

Contents == 1..NumContents

\* the source file the snapshot requests are about
Files == {"a.ts"}

\* -------------------------------------------------------------------------
\* Identifier generator

\* a generator that starts at zero
CounterStart_zero == 1 - 1

\* let counter = 1
CounterStart == 1

\* return counter++ : the value returned
IdValue(c) == c

\* a generator that hands out its counter without incrementing it
IdAdvance_stuck(c) == c

\* return counter++ : the counter afterwards
IdAdvance(c) == c + 1

\* -------------------------------------------------------------------------
\* Emitter

\* JSON.stringify(element, undefined, 0): one line, no indentation
Stringify(element) ==
    <<"{", "id", ":", element.id, ",", "type", ":", element.type, "}">>

\* writer.writeln(line)
Writeln(o, line) == Append(o, line)

\* an emitter that writes every element twice
Emit_twice(o, element) == Writeln(Writeln(o, Stringify(element)), Stringify(element))

\* emit(element)
Emit(o, element) == Writeln(o, Stringify(element))

\* -------------------------------------------------------------------------
\* Values

\* "no ProjectInfo": the undefined a processProject call may return
NoInfo == [id |-> 0, node |-> <<>>]

\* ProjectInfo as the orchestrator sees it: an identifier and the project
ProjectInfo(i, n) == [id |-> i, node |-> n]

\* the reference slots a program may report: TRUE a resolved reference,
\* FALSE an undefined entry of getResolvedProjectReferences()
RefLists(n) ==
    IF Len(n) >= MaxDepth THEN {<<>>}
    ELSE UNION {[1..k -> BOOLEAN] : k \in 0..MaxRefs}

\* a reference graph in which two paths lead to one project: the root
\* references A and D, and A references D
References(project) ==
    CASE project = "root" -> <<"A", "D">>
      [] project = "A" -> <<"D">>
      [] OTHER -> <<>>

\* the project of that graph which the reference path n leads to
RECURSIVE Project(_)
Project(n) ==
    IF n = <<>> THEN "root"
    ELSE References(Project(SubSeq(n, 1, Len(n) - 1)))[n[Len(n)]]

\* the number of resolved slots of refs
RECURSIVE Resolved(_)
Resolved(refs) ==
    IF refs = <<>> THEN 0
    ELSE (IF Head(refs) THEN 1 ELSE 0) + Resolved(Tail(refs))

\* the references of refs as the loop of lines 188-195 sees them: a resolved
\* reference by its place among the resolved ones, an undefined entry as 0
Slots(refs) ==
    [k \in DOMAIN refs |-> IF refs[k] THEN Resolved(SubSeq(refs, 1, k)) ELSE 0]

\* the recursive calls a loop over slots makes
Calls(slots) == Cardinality({k \in DOMAIN slots : slots[k] # 0})

\* slots without its i-th entry
Without(slots, i) == SubSeq(slots, 1, i - 1) \o SubSeq(slots, i + 1, Len(slots))

\* a loop that walks the references from the last to the first
NextReference_last(slots) == Len(slots)

\* for (let reference of references): the entry the loop takes next out of
\* the ones it has not reached, which are kept in array order
NextReference(slots) == 1

\* processProject calls the frames f[1..k] still have to make for the
\* references their loops have not reached
RECURSIVE Pending(_, _)
Pending(f, k) ==
    IF k = 0 THEN 0
    ELSE Pending(f, k - 1) + Calls(f[k].refs)

\* processProject calls made so far
Started == Len(stack) + Cardinality(DOMAIN returned)

\* -------------------------------------------------------------------------
\* Shared objects

\* nothing constructed yet
NoneMade == [idGenerator |-> 0, emitter |-> 0, importLinker |-> 0,
             exportLinker |-> 0, typingsInstaller |-> 0]

\* lines 265-272: createIdGenerator, createEmitter, new ImportLinker, new
\* ExportLinker when a manifest was read, new TypingsInstaller
Construct(pkg) ==
    [idGenerator |-> 1, emitter |-> 1, importLinker |-> 1,
     exportLinker |-> IF pkg THEN 1 ELSE 0, typingsInstaller |-> 1]

\* the arguments of a call that has not been made
NoShared == NoneMade

\* line 272: the objects run hands to the root call, each named by its
\* place among the objects of its kind that run constructed; 0 is undefined
Shared(m) == m

\* a recursive call that gets an identifier generator of its own
PassOn_ownGenerator(shared) == [shared EXCEPT !.idGenerator = @ + 1]

\* line 190: the recursive call gets the caller's own arguments
PassOn(shared) == shared

\* -------------------------------------------------------------------------
\* Typings

\* the type packages a configuration declares when it declares any
TypePackages == <<"node">>

\* no call of the installer yet
NoTypings == [calls |-> 0, node |-> <<>>, declared |-> FALSE, op |-> "none",
              types |-> <<>>]

\* an installer step that always guesses
InstallerCall_guess(hasTypes) == [op |-> "guessTypings", types |-> <<>>]

\* lines 123-128: installTypings with config.options.types when the
\* configuration declares types, guessTypings otherwise
InstallerCall(hasTypes) ==
    IF hasTypes THEN [op |-> "installTypings", types |-> TypePackages]
    ELSE [op |-> "guessTypings", types |-> <<>>]

\* -------------------------------------------------------------------------
\* processProject: frames

\* the arguments and locals of a processProject call on entry; shared holds
\* the emitter, generator, linkers and installer it got, refs the references
\* the loop of lines 188-195 has not reached yet, kids counts the recursive
\* calls made
NewFrame(n, shared) ==
    [node |-> n, pc |-> "resolve", refs |-> <<>>, kids |-> 0,
     dependsOn |-> <<>>, phase |-> 0, result |-> NoInfo, cache |-> <<>>,
     shared |-> shared]

Top == stack[Len(stack)]

SetTop(f) == [stack EXCEPT ![Len(stack)] = f]

Running == pc = "running" /\ stack # <<>>

\* the visitor called before the references are processed
BodyOrder_visitFirst == <<"visit", "refs">>

\* the statements of lines 185-199 in program order: the reference loop,
\* then the visitor
BodyOrder == <<"refs", "visit">>

\* a loop that pushes whatever the recursive call returned
PushIfDefined_always(dependsOn, value) == Append(dependsOn, value)

\* if (projectInfo !== undefined) dependsOn.push(projectInfo)
PushIfDefined(dependsOn, value) ==
    IF value # NoInfo THEN Append(dependsOn, value) ELSE dependsOn

\* a caller that gives up as soon as one of its references yields nothing
ReturnStack_abortCaller(value) ==
    LET k == Len(stack) IN
    IF k = 1 THEN <<>>
    ELSE IF value = NoInfo
    THEN Append(SubSeq(stack, 1, k - 2), [stack[k - 1] EXCEPT !.refs = <<>>, !.phase = Len(BodyOrder)])
    ELSE Append(SubSeq(stack, 1, k - 2),
                [stack[k - 1] EXCEPT !.dependsOn = Append(@, value)])

\* the stack after the running call returned value to its caller: the caller
\* resumes after its await at line 190 and goes on to the next reference
ReturnStack(value) ==
    LET k == Len(stack) IN
    IF k = 1 THEN <<>>
    ELSE LET caller == stack[k - 1] IN
         Append(SubSeq(stack, 1, k - 2),
                [caller EXCEPT !.dependsOn = PushIfDefined(@, value)])

\* return value: the call ends; when it was the root call, run's await at
\* line 272 completes and run resolves
Return(value, why) ==
    /\ stack' = ReturnStack(value)
    /\ returned' = returned @@ (Top.node :> [value |-> value, why |-> why])
    /\ pc' = IF Len(stack) = 1 THEN "done" ELSE pc
    /\ fault' = fault

\* a processProject that catches the fault and returns nothing instead
Throw_caught(kind) ==
    /\ stack' = ReturnStack(NoInfo)
    /\ pc' = IF Len(stack) = 1 THEN "done" ELSE pc
    /\ fault' = [kind |-> kind, node |-> Top.node]
    /\ returned' = returned

\* throw: no processProject call and not run catches, so every frame is
\* unwound and the promise of run is rejected
Throw(kind) ==
    /\ stack' = <<>>
    /\ pc' = "rejected"
    /\ fault' = [kind |-> kind, node |-> Top.node]
    /\ returned' = returned

\* the running call goes on to its next statement of lines 185-199; the
\* visitor is called with the dependsOn list as it is then; after the last
\* statement the call returns what the visitor returned
Advance(f) ==
    LET k == f.phase + 1 IN
    IF k > Len(BodyOrder)
    THEN Return(f.result, "visitor") /\ visits' = visits
    ELSE /\ stack' = SetTop([f EXCEPT !.phase = k, !.pc = BodyOrder[k]])
         /\ visits' = IF BodyOrder[k] = "visit"
                      THEN Append(visits, [node |-> f.node, dependsOn |-> f.dependsOn])
                      ELSE visits
         /\ UNCHANGED <<returned, pc, fault>>

\* -------------------------------------------------------------------------
\* run

InitRun ==
    /\ pc = "start"
    /\ exitCode = NoCode
    /\ options = [projectRoot |-> Undefined, repositoryRoot |-> Undefined,
                  inferTypings |-> FALSE]
    /\ sink = "unopened"
    /\ opens = 0
    /\ counter = 0
    /\ out = <<>>
    /\ exportLinker = FALSE
    /\ stack = <<>>
    /\ fsChanges = 0
    /\ drawn = <<>>
    /\ emitted = <<>>
    /\ visits = <<>>
    /\ returned = <<>>
    /\ programs = <<>>
    /\ requests = <<>>
    /\ fault = NoFault
    /\ packageJson = FALSE
    /\ made = NoneMade
    /\ typings = NoTypings

\* a run over a disk without the file
Init == InitRun /\ fs = [f \in Files |-> 0]

\* a run over any disk
InitSnap == InitRun /\ fs \in [Files -> 0..NumContents]

\* lines 223-245: --version or --help print and return
RunInfoOnly ==
    /\ pc = "start"
    /\ pc' = "done"
    /\ UNCHANGED <<exitCode, options, sink, opens, counter, out, exportLinker,
                   stack, fs, fsChanges, fault>>
    /\ UNCHANGED <<packageJson, made, typings>>
    /\ UNCHANGED hist

\* lines 249, 263: the manifest is read, then fs.openSync throws and run is
\* rejected before anything is made
RunOpenFails(pkg) ==
    /\ pc = "start"
    /\ pc' = "rejected"
    /\ fault' = [kind |-> "open", node |-> <<>>]
    /\ opens' = opens + 1
    /\ packageJson' = pkg
    /\ UNCHANGED <<exitCode, options, sink, counter, out, exportLinker, stack,
                   fs, fsChanges>>
    /\ UNCHANGED <<made, typings>>
    /\ UNCHANGED hist

\* lines 221, 247-272: the options are read, the sink is opened, the single
\* generator, emitter and linkers are made and the root project is entered
RunSetup(infer, pr, rr, pkg) ==
    /\ pc = "start"
    /\ pc' = "running"
    /\ options' = [projectRoot |-> pr, repositoryRoot |-> rr, inferTypings |-> infer]
    /\ sink' = "open"
    /\ opens' = opens + 1
    /\ counter' = CounterStart
    /\ packageJson' = pkg
    /\ exportLinker' = pkg
    /\ made' = Construct(pkg)
    /\ stack' = <<NewFrame(<<>>, Shared(Construct(pkg)))>>
    /\ UNCHANGED <<exitCode, out, fs, fsChanges, fault, typings>>
    /\ UNCHANGED hist

\* lines 279-282: the rejection handler of the top-level invocation
RunRejected ==
    /\ pc = "rejected"
    /\ pc' = "failed"
    /\ exitCode' = ExitRejected
    /\ UNCHANGED <<options, sink, opens, counter, out, exportLinker, stack,
                   fs, fsChanges, fault>>
    /\ UNCHANGED <<packageJson, made, typings>>
    /\ UNCHANGED hist

\* -------------------------------------------------------------------------
\* processProject

\* lines 90-104: an explicit project path is resolved to a configuration
\* file; a missing file aborts this call, a configuration that cannot be
\* read or parsed makes loadConfigFile (64-80) throw
PP_Resolve(hasProject, isDir, exists, loadOk) ==
    /\ Running /\ Top.pc = "resolve"
    /\ IF ~hasProject
       THEN /\ stack' = SetTop([Top EXCEPT !.pc = "files"])
            /\ UNCHANGED <<pc, fault, returned, exitCode>>
       ELSE IF ~exists
       THEN /\ exitCode' = ExitMissing
            /\ Return(NoInfo, "missing")
       ELSE IF ~loadOk
       THEN /\ Throw("config")
            /\ UNCHANGED exitCode
       ELSE /\ stack' = SetTop([Top EXCEPT !.pc = "files"])
            /\ UNCHANGED <<pc, fault, returned, exitCode>>
    /\ UNCHANGED <<options, sink, opens, counter, out, exportLinker, fs, fsChanges,
                   drawn, emitted, visits, programs, requests>>
    /\ UNCHANGED <<packageJson, made, typings>>

\* a call that resolves the roots of the shared options before it looks at
\* the input files
PP_Files_rootsFirst(empty) ==
    /\ Running /\ Top.pc = "files"
    /\ options' = [options EXCEPT !.projectRoot = "absolute",
                                  !.repositoryRoot = "absolute"]
    /\ IF empty
       THEN /\ exitCode' = ExitNoFiles
            /\ Return(NoInfo, "nofiles")
       ELSE /\ stack' = SetTop([Top EXCEPT !.pc = "roots"])
            /\ UNCHANGED <<pc, fault, returned, exitCode>>
    /\ UNCHANGED <<sink, opens, counter, out, exportLinker, fs, fsChanges,
                   drawn, emitted, visits, programs, requests>>
    /\ UNCHANGED <<packageJson, made, typings>>

\* lines 106-110: a configuration without input files aborts this call
PP_Files(empty) ==
    /\ Running /\ Top.pc = "files"
    /\ IF empty
       THEN /\ exitCode' = ExitNoFiles
            /\ Return(NoInfo, "nofiles")
       ELSE /\ stack' = SetTop([Top EXCEPT !.pc = "roots"])
            /\ UNCHANGED <<pc, fault, returned, exitCode>>
    /\ UNCHANGED <<options, sink, opens, counter, out, exportLinker, fs, fsChanges,
                   drawn, emitted, visits, programs, requests>>
    /\ UNCHANGED <<packageJson, made, typings>>

\* lines 112-120: the project root and the repository root of the shared
\* options are resolved; execSync throws when git fails
PP_Roots(gitOk) ==
    /\ Running /\ Top.pc = "roots"
    /\ IF options.repositoryRoot = Undefined /\ ~gitOk
       THEN /\ Throw("git")
            /\ options' = [options EXCEPT !.projectRoot = "absolute"]
       ELSE /\ options' = [options EXCEPT !.projectRoot = "absolute",
                                          !.repositoryRoot = "absolute"]
            /\ stack' = SetTop([Top EXCEPT !.pc = "typings"])
            /\ UNCHANGED <<pc, fault, returned>>
    /\ UNCHANGED <<exitCode, sink, opens, counter, out, exportLinker, fs, fsChanges,
                   drawn, emitted, visits, programs, requests>>
    /\ UNCHANGED <<packageJson, made, typings>>

\* lines 122-129: with inferTypings the declared types are installed or the
\* typings are guessed; a fault of the installer is not caught
PP_Typings(hasTypes, ok) ==
    /\ Running /\ Top.pc = "typings"
    /\ typings' = IF options.inferTypings
                  THEN [calls |-> typings.calls + 1, node |-> Top.node,
                        declared |-> hasTypes, op |-> InstallerCall(hasTypes).op,
                        types |-> InstallerCall(hasTypes).types]
                  ELSE typings
    /\ IF options.inferTypings /\ ~ok
       THEN Throw("typings")
       ELSE /\ stack' = SetTop([Top EXCEPT !.pc = "program"])
            /\ UNCHANGED <<pc, fault, returned>>
    /\ UNCHANGED <<exitCode, options, sink, opens, counter, out, exportLinker, fs,
                   fsChanges, drawn, emitted, visits, programs, requests>>
    /\ UNCHANGED <<packageJson, made>>

\* lines 132-186: the host is built over a new, empty snapshot map and the
\* language service is asked for the program; without a program the call
\* is aborted, otherwise the resolved references are read
PP_Program(hasProgram, refs) ==
    /\ Running /\ Top.pc = "program"
    /\ IF ~hasProgram
       THEN /\ exitCode' = ExitNoProgram
            /\ Return(NoInfo, "noprogram")
            /\ UNCHANGED <<visits, programs>>
       ELSE /\ programs' = programs @@ (Top.node :> Resolved(refs))
            /\ Advance([Top EXCEPT !.refs = Slots(refs), !.dependsOn = <<>>])
            /\ UNCHANGED exitCode
    /\ UNCHANGED <<options, sink, opens, counter, out, exportLinker, fs, fsChanges,
                   drawn, emitted, requests>>
    /\ UNCHANGED <<packageJson, made, typings>>

\* a loop that looks up the project of a reference among the projects
\* analysed so far and takes the ProjectInfo it finds instead of calling
PP_NextRef_memo ==
    /\ Running /\ Top.pc = "refs"
    /\ IF Top.refs = <<>>
       THEN Advance(Top)
       ELSE /\ LET i == NextReference(Top.refs)
                    reference == Top.refs[i]
                    known == {m \in DOMAIN returned :
                                 /\ reference # 0
                                 /\ returned[m].value # NoInfo
                                 /\ Project(m) = Project(Append(Top.node, reference))} IN
               IF reference # 0 /\ known # {}
               THEN stack' = SetTop([Top EXCEPT !.refs = Without(@, i),
                                       !.dependsOn = Append(@, returned[CHOOSE m \in known : TRUE].value)])
               ELSE IF reference # 0
               THEN stack' = Append(SetTop([Top EXCEPT !.refs = Without(@, i), !.kids = @ + 1]),
                                    NewFrame(Append(Top.node, reference),
                                             PassOn(Top.shared)))
               ELSE stack' = SetTop([Top EXCEPT !.refs = Without(@, i)])
            /\ UNCHANGED <<pc, fault, returned, visits>>
    /\ UNCHANGED <<exitCode, options, sink, opens, counter, out, exportLinker, fs,
                   fsChanges, drawn, emitted, programs, requests>>
    /\ UNCHANGED <<packageJson, made, typings>>

\* lines 187-196: one turn of the loop over the references, or its end
PP_NextRef ==
    /\ Running /\ Top.pc = "refs"
    /\ IF Top.refs = <<>>
       THEN Advance(Top)
       ELSE /\ LET i == NextReference(Top.refs)
                    reference == Top.refs[i] IN
               IF reference # 0
               THEN stack' = Append(SetTop([Top EXCEPT !.refs = Without(@, i), !.kids = @ + 1]),
                                    NewFrame(Append(Top.node, reference),
                                             PassOn(Top.shared)))
               ELSE stack' = SetTop([Top EXCEPT !.refs = Without(@, i)])
            /\ UNCHANGED <<pc, fault, returned, visits>>
    /\ UNCHANGED <<exitCode, options, sink, opens, counter, out, exportLinker, fs,
                   fsChanges, drawn, emitted, programs, requests>>
    /\ UNCHANGED <<packageJson, made, typings>>

\* -------------------------------------------------------------------------
\* The visitor and the linkers, as processProject and run use them

Producers == {"visitor", "importLinker", "exportLinker"}

\* line 199, inside lsif: a producer draws an identifier from the shared
\* generator and hands one element to the shared emitter
PP_Emit(by, type) ==
    /\ Running /\ Top.pc = "visit"
    /\ Len(emitted) < MaxEmit
    /\ by = "exportLinker" => exportLinker
    /\ LET element == [id |-> IdValue(counter), type |-> type] IN
       /\ counter' = IdAdvance(counter)
       /\ out' = Emit(out, element)
       /\ drawn' = Append(drawn, [id |-> element.id, node |-> Top.node, kind |-> "element"])
       /\ emitted' = Append(emitted, [element |-> element, node |-> Top.node])
    /\ UNCHANGED <<pc, exitCode, options, sink, opens, exportLinker, fs, fsChanges,
                   stack, visits, returned, programs, requests, fault>>
    /\ UNCHANGED <<packageJson, made, typings>>

\* line 199: lsif returns the project's new ProjectInfo, its identifier drawn
\* from the shared generator, or nothing; processProject returns that value
PP_VisitReturn(ok) ==
    /\ Running /\ Top.pc = "visit"
    /\ IF ok
       THEN /\ counter' = IdAdvance(counter)
            /\ drawn' = Append(drawn, [id |-> IdValue(counter), node |-> Top.node, kind |-> "project"])
            /\ Advance([Top EXCEPT !.result = ProjectInfo(IdValue(counter), Top.node)])
       ELSE /\ UNCHANGED <<counter, drawn>>
            /\ Advance([Top EXCEPT !.result = NoInfo])
    /\ UNCHANGED <<exitCode, options, sink, opens, out, exportLinker, fs, fsChanges,
                   emitted, programs, requests>>
    /\ UNCHANGED <<packageJson, made, typings>>

\* -------------------------------------------------------------------------
\* The host's snapshot cache

Absent == [present |-> FALSE, text |-> 0]

\* ts.ScriptSnapshot.fromString(content)
FromString(content) == [present |-> TRUE, text |-> content]

\* a host that never finds a snapshot in its map
Cached_never(cache, f) == FALSE

\* scriptSnapshots.get(fileName) !== undefined
Cached(cache, f) == f \in DOMAIN cache

\* a host that also remembers that a file could not be read
GetScriptSnapshot_keepAbsent(cache, f, disk, readable) ==
    IF f \in DOMAIN cache THEN [answer |-> cache[f], cache |-> cache]
    ELSE IF disk[f] = 0 \/ ~readable
    THEN [answer |-> Absent, cache |-> cache @@ (f :> Absent)]
    ELSE [answer |-> FromString(disk[f]),
          cache |-> cache @@ (f :> FromString(disk[f]))]

\* lines 149-163: the answer of getScriptSnapshot and the map afterwards
GetScriptSnapshot(cache, f, disk, readable) ==
    IF Cached(cache, f) THEN [answer |-> cache[f], cache |-> cache]
    ELSE IF disk[f] = 0 THEN [answer |-> Absent, cache |-> cache]
    ELSE IF ~readable THEN [answer |-> Absent, cache |-> cache]
    ELSE [answer |-> FromString(disk[f]),
          cache |-> cache @@ (f :> FromString(disk[f]))]

\* the language service of the running call asks its host for a snapshot,
\* while it builds the program (179) or serves the visitor (198-199)
PP_Snapshot(f, readable) ==
    /\ Running /\ Top.pc \in {"program", "visit"}
    /\ Len(requests) < MaxRequests
    /\ LET r == GetScriptSnapshot(Top.cache, f, fs, readable) IN
       /\ stack' = SetTop([Top EXCEPT !.cache = r.cache])
       /\ requests' = Append(requests, [node |-> Top.node, file |-> f,
                                        answer |-> r.answer, disk |-> fs[f],
                                        readable |-> readable,
                                        hit |-> f \in DOMAIN Top.cache,
                                        kept |-> f \in DOMAIN r.cache])
    /\ UNCHANGED <<pc, exitCode, options, sink, opens, counter, out, exportLinker,
                   fs, fsChanges, drawn, emitted, visits, returned, programs, fault>>
    /\ UNCHANGED <<packageJson, made, typings>>

\* the environment rewrites or deletes the file during the run
FsChange(f, c) ==
    /\ Running
    /\ fsChanges < MaxFsChanges
    /\ c # fs[f]
    /\ fs' = [fs EXCEPT ![f] = c]
    /\ fsChanges' = fsChanges + 1
    /\ UNCHANGED <<pc, exitCode, options, sink, opens, counter, out, exportLinker,
                   stack, drawn, emitted, visits, returned, programs, requests, fault>>
    /\ UNCHANGED <<packageJson, made, typings>>

\* -------------------------------------------------------------------------

\* the reference lists the program of the running call may report, in runs
\* of at most MaxProjects processProject calls
ProgramRefs ==
    IF Running
    THEN {refs \in RefLists(Top.node) :
             Started + Pending(stack, Len(stack)) + Resolved(refs) <= MaxProjects}
    ELSE {}

\* the same for a root with at most one resolved reference
SnapRefs == IF Running /\ Top.node = <<>> THEN {<<>>, <<TRUE>>}
            ELSE IF Running THEN {<<>>} ELSE {}

Next ==
    \/ RunInfoOnly
    \/ \E pkg \in BOOLEAN : RunOpenFails(pkg)
    \/ \E infer \in BOOLEAN, pr \in {Undefined, "given"}, rr \in {Undefined, "given"},
          pkg \in BOOLEAN : RunSetup(infer, pr, rr, pkg)
    \/ RunRejected
    \/ \E hasProject \in BOOLEAN, isDir \in BOOLEAN, exists \in BOOLEAN,
          loadOk \in BOOLEAN : PP_Resolve(hasProject, isDir, exists, loadOk)
    \/ \E empty \in BOOLEAN : PP_Files(empty)
    \/ \E gitOk \in BOOLEAN : PP_Roots(gitOk)
    \/ \E hasTypes \in BOOLEAN, ok \in BOOLEAN : PP_Typings(hasTypes, ok)
    \/ \E hasProgram \in BOOLEAN : \E refs \in ProgramRefs : PP_Program(hasProgram, refs)
    \/ PP_NextRef
    \/ \E by \in Producers, type \in {"vertex", "edge"} : PP_Emit(by, type)
    \/ \E ok \in BOOLEAN : PP_VisitReturn(ok)

Spec == Init /\ [][Next]_vars

\* Runs in which every project is analysed and nothing is emitted, over a
\* root with at most one reference, together with the snapshot requests of
\* the language services and the changes of the disk.
NextSnap ==
    \/ \E infer \in BOOLEAN : RunSetup(infer, "given", "given", FALSE)
    \/ PP_Resolve(FALSE, FALSE, TRUE, TRUE)
    \/ PP_Files(FALSE)
    \/ PP_Roots(TRUE)
    \/ PP_Typings(FALSE, TRUE)
    \/ \E refs \in SnapRefs : PP_Program(TRUE, refs)
    \/ PP_NextRef
    \/ PP_VisitReturn(TRUE)
    \/ \E f \in Files, readable \in BOOLEAN : PP_Snapshot(f, readable)
    \/ \E f \in Files, c \in 0..NumContents : FsChange(f, c)

SpecSnap == InitSnap /\ [][NextSnap]_vars

\* the reference list the program of the running call reports in the graph
\* of References
DiamondRefs ==
    IF Running THEN {[k \in DOMAIN References(Project(Top.node)) |-> TRUE]} ELSE {}

\* Runs over the graph of References in which every project is analysed.
NextDiamond ==
    \/ \E infer \in BOOLEAN, pkg \in BOOLEAN : RunSetup(infer, "given", "given", pkg)
    \/ PP_Resolve(FALSE, FALSE, TRUE, TRUE)
    \/ PP_Files(FALSE)
    \/ PP_Roots(TRUE)
    \/ \E hasTypes \in BOOLEAN : PP_Typings(hasTypes, TRUE)
    \/ \E refs \in DiamondRefs : PP_Program(TRUE, refs)
    \/ PP_NextRef
    \/ \E by \in Producers, type \in {"vertex", "edge"} : PP_Emit(by, type)
    \/ PP_VisitReturn(TRUE)

SpecDiamond == Init /\ [][NextDiamond]_vars

\* Runs over any tree of projects each of which has a configuration, input
\* files and a program, with a tool chain that answers every call.
NextValid ==
    \/ \E infer \in BOOLEAN, pkg \in BOOLEAN : RunSetup(infer, "given", "given", pkg)
    \/ \E hasProject \in BOOLEAN : PP_Resolve(hasProject, FALSE, TRUE, TRUE)
    \/ PP_Files(FALSE)
    \/ PP_Roots(TRUE)
    \/ \E hasTypes \in BOOLEAN : PP_Typings(hasTypes, TRUE)
    \/ \E refs \in ProgramRefs : PP_Program(TRUE, refs)
    \/ PP_NextRef
    \/ \E by \in Producers, type \in {"vertex", "edge"} : PP_Emit(by, type)
    \/ \E ok \in BOOLEAN : PP_VisitReturn(ok)

\* every await of run and processProject settles and the event loop then
\* runs the continuation: a step that can be taken is taken
SpecValid == Init /\ [][NextValid]_vars /\ WF_vars(NextValid)

\* =========================================================================
\* Properties

Parent(n) == SubSeq(n, 1, Len(n) - 1)

\* d is reached from p through one or more references
Descendant(d, p) == Len(p) < Len(d) /\ SubSeq(d, 1, Len(p)) = p

Visited(n) == \E i \in DOMAIN visits : visits[i].node = n

OnStack(n) == \E k \in DOMAIN stack : stack[k].node = n

\* nothing was drawn, emitted, bound or visited for n or below n
NoTrace(n) ==
    /\ \A i \in DOMAIN drawn : drawn[i].node # n /\ ~Descendant(drawn[i].node, n)
    /\ \A i \in DOMAIN emitted : emitted[i].node # n /\ ~Descendant(emitted[i].node, n)
    /\ n \notin DOMAIN programs
    /\ ~Visited(n)
    /\ \A m \in DOMAIN returned : ~Descendant(m, n)
    /\ \A k \in DOMAIN stack : ~Descendant(stack[k].node, n)

\* the caller of the finished call n was not stopped by it: it is still at
\* work, or it went through all its references and its visitor pass, unless
\* a fault has rejected the run since
CallerContinues(n) ==
    \/ n = <<>>
    \/ fault # NoFault
    \/ OnStack(Parent(n))
    \/ /\ Parent(n) \in DOMAIN returned
       /\ Visited(Parent(n))
       /\ \A k \in 1..programs[Parent(n)] : Append(Parent(n), k) \in DOMAIN returned

\* every line written is the line of an element handed to emit, in order
OutputIsEmitted ==
    out = [i \in DOMAIN emitted |-> Stringify(emitted[i].element)]

\* C1: all identifiers drawn in a run, by any project at any depth and for
\* elements and ProjectInfo alike, are pairwise distinct and strictly
\* increasing in the order drawn, and the counter is ahead of all of them
\* (it is never reset when processProject recurses).
C1_IdsDistinctIncreasing ==
    /\ \A i, j \in DOMAIN drawn : i < j => drawn[i].id < drawn[j].id
    /\ \A i \in DOMAIN drawn : drawn[i].id < counter

C1_Witness ==
    \E i, j \in DOMAIN drawn :
        /\ i < j
        /\ drawn[i].kind = "element" /\ drawn[j].kind = "project"
        /\ Len(drawn[i].node) = 2 /\ drawn[j].node = <<>>

\* C2: identifiers and elements of a project reached through references of P
\* come before those of P, and no identifier is drawn and no element emitted
\* for P while P has not reached its visitor pass, that is before all its
\* recursive calls have returned.
C2_DependenciesFirst ==
    /\ \A i, j \in DOMAIN drawn :
          Descendant(drawn[i].node, drawn[j].node) => drawn[i].id < drawn[j].id /\ i < j
    /\ \A i, j \in DOMAIN emitted :
          Descendant(emitted[i].node, emitted[j].node) => i < j
    /\ \A k \in DOMAIN stack :
          stack[k].pc # "visit" =>
             /\ \A i \in DOMAIN drawn : drawn[i].node # stack[k].node
             /\ \A i \in DOMAIN emitted : emitted[i].node # stack[k].node
    /\ \A k \in DOMAIN stack :
          stack[k].pc = "visit" =>
             \A c \in 1..stack[k].kids : Append(stack[k].node, c) \in DOMAIN returned

C2_Witness ==
    \E i, j \in DOMAIN emitted :
        /\ Descendant(emitted[i].node, emitted[j].node)
        /\ Len(emitted[i].node) = 2 /\ emitted[j].node = <<>>
        /\ pc = "done"

\* C3: a project whose project path names no existing configuration file
\* returns nothing, leaves no trace (no identifier, element, program,
\* visitor pass or recursive call) and sets a non-zero exit code; its caller
\* goes on, and what was emitted before stays in the output.
C3_MissingConfig ==
    \A n \in DOMAIN returned :
        returned[n].why = "missing" =>
            /\ returned[n].value = NoInfo
            /\ NoTrace(n)
            /\ exitCode # NoCode
            /\ CallerContinues(n)
            /\ OutputIsEmitted

C3_Witness ==
    /\ pc = "done"
    /\ <<1>> \in DOMAIN returned /\ returned[<<1>>].why = "missing"
    /\ <<2>> \in DOMAIN returned /\ returned[<<2>>].value # NoInfo
    /\ returned[<<>>].value # NoInfo
    /\ \E i \in DOMAIN emitted : emitted[i].node = <<>>

\* C4 as claimed: a nested project whose configuration cannot be read or
\* parsed returns nothing to its caller, which goes on, and the exit code is
\* non-zero.
C4_InvalidConfigSkipsProject ==
    (fault.kind = "config" /\ fault.node # <<>>) =>
        /\ fault.node \in DOMAIN returned
        /\ returned[fault.node].value = NoInfo
        /\ OnStack(Parent(fault.node)) \/ Visited(Parent(fault.node))
        /\ exitCode # NoCode

\* C4 as the code has it: loadConfigFile throws and nothing catches the
\* fault before the rejection handler of run, so the faulting call and all
\* its callers end without a result and without a visitor pass, nothing
\* more is processed, the handler sets the exit code to 1, and what was
\* emitted before stays in the output.
C4_InvalidConfigRejectsRun ==
    fault.kind = "config" =>
        /\ stack = <<>>
        /\ pc \in {"rejected", "failed"}
        /\ \A m \in DOMAIN returned : m # fault.node /\ ~Descendant(fault.node, m)
        /\ NoTrace(fault.node)
        /\ \A i \in DOMAIN visits : ~Descendant(fault.node, visits[i].node)
        /\ pc = "failed" => exitCode = ExitRejected /\ exitCode # NoCode
        /\ OutputIsEmitted

C4_Witness ==
    /\ fault.kind = "config" /\ fault.node = <<2>>
    /\ pc = "failed"
    /\ <<1>> \in DOMAIN returned /\ returned[<<1>>].value # NoInfo
    /\ \E i \in DOMAIN emitted : emitted[i].node = <<1>>

\* C5: a project without input files returns nothing and sets a non-zero
\* exit code, and it does so before a host or program exists for it, before
\* any recursive call and before the visitor: it leaves no trace.
C5_NoInputFiles ==
    \A n \in DOMAIN returned :
        returned[n].why = "nofiles" =>
            /\ returned[n].value = NoInfo
            /\ NoTrace(n)
            /\ exitCode # NoCode

C5_Witness ==
    /\ pc = "done"
    /\ <<1>> \in DOMAIN returned /\ returned[<<1>>].why = "nofiles"
    /\ Visited(<<>>)
    /\ Len(emitted) > 0

\* C6 as claimed: any two requests of a run for the same file that return a
\* snapshot return the same content, whichever projects made them.
C6_RunWideCoherent ==
    \A i, j \in DOMAIN requests :
        (/\ requests[i].file = requests[j].file
         /\ requests[i].answer.present /\ requests[j].answer.present)
        => requests[i].answer.text = requests[j].answer.text

\* C6 as the code has it: the snapshot map belongs to one processProject
\* call; once a request of that call has returned a snapshot of a file,
\* every later request of the same call for that file returns the same
\* snapshot, whatever has happened to the file on disk.
C6_CallWideCoherent ==
    \A i, j \in DOMAIN requests :
        (/\ i < j
         /\ requests[i].file = requests[j].file
         /\ requests[i].node = requests[j].node
         /\ requests[i].answer.present)
        => requests[j].answer = requests[i].answer

C6_Witness ==
    \E i, j \in DOMAIN requests :
        /\ i < j
        /\ requests[i].file = requests[j].file
        /\ requests[i].node = requests[j].node
        /\ requests[i].answer.present
        /\ requests[j].disk # requests[i].disk
        /\ <<1>> \in DOMAIN returned

\* C7 as claimed: the sink is opened once, before any project is processed,
\* and whenever run has ended after opening it, the sink has been closed.
C7_SinkOpenedOnceAndClosed ==
    /\ opens <= 1
    /\ stack # <<>> => opens = 1 /\ sink # "unopened"
    /\ (pc \in {"done", "failed"} /\ sink # "unopened") => sink = "closed"

\* C8: the output is exactly the lines of the elements handed to emit, one
\* line for each call, in call order.
C8_OutputEqualsEmitCalls ==
    /\ Len(out) = Len(emitted)
    /\ \A i \in DOMAIN out : out[i] = Stringify(emitted[i].element)

C8_Witness ==
    \E i, j \in DOMAIN out :
        /\ i < j
        /\ emitted[i].node # emitted[j].node
        /\ emitted[i].element.type # emitted[j].element.type
        /\ pc = "done"

\* C9: the k-th identifier drawn in a run is k.
C9_KthIdIsK ==
    \A k \in DOMAIN drawn : drawn[k].id = k

C9_Witness ==
    /\ Len(drawn) >= 4
    /\ drawn[1].node # drawn[4].node
    /\ drawn[1].kind # drawn[2].kind

Defined(value) == value # NoInfo

\* what the recursive calls for the references of n returned, in the order
\* of the references, without the calls that returned nothing
SucceededReferences(n) ==
    SelectSeq([k \in 1..programs[n] |-> returned[Append(n, k)].value], Defined)

\* C10: the visitor of a project gets as dependsOn exactly the ProjectInfo
\* of its references whose recursive call returned one, in the order of the
\* references; a reference that returned nothing is left out and does not
\* stop its caller.
C10_DependsOnSucceeded ==
    /\ \A i \in DOMAIN visits :
          /\ \A k \in 1..programs[visits[i].node] :
                Append(visits[i].node, k) \in DOMAIN returned
          /\ visits[i].dependsOn = SucceededReferences(visits[i].node)
    /\ \A n \in DOMAIN returned :
          returned[n].value = NoInfo => CallerContinues(n)

C10_Witness ==
    \E i \in DOMAIN visits :
        /\ visits[i].node = <<>>
        /\ programs[<<>>] = 2
        /\ returned[<<1>>].value = NoInfo
        /\ returned[<<2>>].value # NoInfo
        /\ visits[i].dependsOn = <<returned[<<2>>].value>>
        /\ pc = "done"

\* a processProject call ended at one of its own checks
Aborted(n) ==
    n \in DOMAIN returned /\ returned[n].why \in {"missing", "nofiles", "noprogram"}

\* C11: the exit code is non-zero exactly when some project, at any depth,
\* was aborted at one of the checks of processProject or a fault rejected
\* the run, and zero otherwise; once it is non-zero it stays non-zero,
\* whatever is processed successfully afterwards.
C11_ExitCode ==
    /\ (\E n \in DOMAIN returned : Aborted(n)) => exitCode # NoCode
    /\ pc = "failed" => exitCode # NoCode
    /\ exitCode # NoCode => (\E n \in DOMAIN returned : Aborted(n)) \/ pc = "failed"
    /\ exitCode \in {NoCode, ExitMissing, ExitNoFiles, ExitNoProgram, ExitRejected}

C11_Witness ==
    /\ pc = "done"
    /\ Aborted(<<1>>)
    /\ <<2>> \in DOMAIN returned /\ returned[<<2>>].value # NoInfo
    /\ returned[<<>>].value # NoInfo
    /\ exitCode # NoCode

\* C12: a project for which the language service has no program returns
\* nothing and sets a non-zero exit code; nothing is drawn or emitted for
\* it, none of its references is processed, its visitor is not called, and
\* its caller goes on.
C12_NoProgram ==
    \A n \in DOMAIN returned :
        returned[n].why = "noprogram" =>
            /\ returned[n].value = NoInfo
            /\ NoTrace(n)
            /\ exitCode # NoCode
            /\ CallerContinues(n)

C12_Witness ==
    /\ pc = "done"
    /\ <<1>> \in DOMAIN returned /\ returned[<<1>>].why = "noprogram"
    /\ <<2>> \in DOMAIN returned /\ returned[<<2>>].value # NoInfo
    /\ Visited(<<>>)
    /\ exitCode = ExitNoProgram

\* a lies at or below a reference that its project declares before the
\* reference that b lies at or below
Before(a, b) ==
    \E m \in 1..Len(a) :
        /\ m <= Len(b)
        /\ SubSeq(a, 1, m - 1) = SubSeq(b, 1, m - 1)
        /\ a[m] < b[m]

\* the processProject call for n has begun
Begun(n) == OnStack(n) \/ n \in DOMAIN returned

\* C13: the references of a project are processed one after the other in
\* the order of their declaration: whatever is drawn, emitted or visited at
\* or below an earlier reference comes before whatever is drawn, emitted or
\* visited at or below a later one, a reference is begun only when every
\* earlier reference of the same project has returned, and at any time the
\* calls in progress form one chain from the root.
C13_SiblingsInTurn ==
    /\ \A i, j \in DOMAIN drawn :
          Before(drawn[i].node, drawn[j].node) => i < j /\ drawn[i].id < drawn[j].id
    /\ \A i, j \in DOMAIN emitted :
          Before(emitted[i].node, emitted[j].node) => i < j
    /\ \A i, j \in DOMAIN visits :
          Before(visits[i].node, visits[j].node) => i < j
    /\ \A k \in DOMAIN stack :
          k > 1 => Parent(stack[k].node) = stack[k - 1].node
    /\ \A n \in DOMAIN returned \cup {stack[k].node : k \in DOMAIN stack} :
          n # <<>> =>
             \A c \in 1..(n[Len(n)] - 1) :
                /\ Append(Parent(n), c) \in DOMAIN returned
                /\ \A k \in DOMAIN stack :
                      stack[k].node # Append(Parent(n), c)
                      /\ ~Descendant(stack[k].node, Append(Parent(n), c))

C13_Witness ==
    /\ pc = "done"
    /\ Len(emitted) = 2
    /\ programs[<<>>] = 2
    /\ emitted[1].node = <<1>> /\ emitted[2].node = <<2>>
    /\ \E i, j \in DOMAIN drawn :
          /\ drawn[i].node = <<1>> /\ drawn[i].kind = "project"
          /\ drawn[j].node = <<2>> /\ drawn[j].kind = "project"
          /\ i < j

\* the reference paths of the graph of References at and below n
RECURSIVE Paths(_)
Paths(n) ==
    {n} \cup UNION {Paths(Append(n, k)) : k \in DOMAIN References(Project(n))}

\* the visitor passes made for n
Passes(n) == Cardinality({i \in DOMAIN visits : visits[i].node = n})

\* C14: nothing is shared between two reference paths that lead to the same
\* project: each path gets a processProject call of its own with one
\* visitor pass, a ProjectInfo of its own with its own identifier, and its
\* own elements with new identifiers; a project is visited only after a call
\* was made for each of its references, whether or not the project referred
\* to was analysed before.
C14_OncePerPath ==
    /\ \A i \in DOMAIN visits :
          \A k \in DOMAIN References(Project(visits[i].node)) :
              /\ Append(visits[i].node, k) \in DOMAIN returned
              /\ visits[i].dependsOn[k] = returned[Append(visits[i].node, k)].value
              /\ visits[i].dependsOn[k].node = Append(visits[i].node, k)
    /\ \A n1, n2 \in DOMAIN returned :
          n1 # n2 /\ Project(n1) = Project(n2) =>
              /\ Passes(n1) = 1 /\ Passes(n2) = 1
              /\ returned[n1].value.id # returned[n2].value.id
    /\ \A i, j \in DOMAIN emitted :
          i # j => emitted[i].element.id # emitted[j].element.id
    /\ pc = "done" => \A n \in Paths(<<>>) : Passes(n) = 1 /\ n \in DOMAIN returned

C14_Witness ==
    /\ pc = "done"
    /\ Project(<<1, 1>>) = Project(<<2>>)
    /\ Len(emitted) = 2
    /\ emitted[1].node = <<1, 1>> /\ emitted[2].node = <<2>>
    /\ emitted[1].element.type = emitted[2].element.type
    /\ emitted[1].element.id # emitted[2].element.id
    /\ returned[<<1, 1>>].value.id # returned[<<2>>].value.id
    /\ Passes(<<1, 1>>) = 1 /\ Passes(<<2>>) = 1

\* the projects at and below n in the order in which each follows all the
\* projects of its references, the references in the order of declaration
RECURSIVE PostOrder(_), PostOrderOf(_, _)
PostOrderOf(n, k) ==
    IF k = 0 THEN <<>> ELSE PostOrderOf(n, k - 1) \o PostOrder(Append(n, k))

PostOrder(n) == PostOrderOf(n, programs[n]) \o <<n>>

\* C15: over a tree of valid projects the run comes to its end, and at the
\* end the visitor passes are exactly the reference paths of the tree, one
\* pass each, in post-order, with the identifiers drawn in increasing order.
C15_CompletesInPostOrder ==
    /\ <>(pc = "done")
    /\ [](pc = "done" =>
            /\ [i \in DOMAIN visits |-> visits[i].node] = PostOrder(<<>>)
            /\ \A i, j \in DOMAIN drawn : i < j => drawn[i].id < drawn[j].id
            /\ exitCode = NoCode)

C15_Witness ==
    /\ pc = "done"
    /\ programs = (<<>> :> 1) @@ (<<1>> :> 1) @@ (<<1, 1>> :> 0)
    /\ [i \in DOMAIN visits |-> visits[i].node] = <<<<1, 1>>, <<1>>, <<>>>>
    /\ returned[<<1, 1>>].value.id < returned[<<1>>].value.id
    /\ returned[<<1>>].value.id < returned[<<>>].value.id

\* the calls that got as far as the typings step
PastTypings ==
    Cardinality(DOMAIN programs)
    + Cardinality({n \in DOMAIN returned : returned[n].why = "noprogram"})
    + (IF Running /\ Top.pc = "program" THEN 1 ELSE 0)
    + (IF fault.kind = "typings" THEN 1 ELSE 0)

\* C16: with inferTypings every project that comes to build its host has
\* had its installer call made just before, installTypings with exactly the
\* declared type packages when the configuration declares types and
\* guessTypings otherwise; without inferTypings the installer is never
\* called.
C16_TypingsBeforeProgram ==
    /\ ~options.inferTypings => typings = NoTypings
    /\ options.inferTypings =>
          /\ typings.calls = PastTypings
          /\ Running /\ Top.pc = "program" => typings.node = Top.node
          /\ \A n \in DOMAIN programs : typings.calls >= 1
          /\ typings.calls >= 1 =>
                /\ typings.op = (IF typings.declared THEN "installTypings" ELSE "guessTypings")
                /\ typings.types = (IF typings.declared THEN TypePackages ELSE <<>>)

C16_Witness ==
    /\ options.inferTypings
    /\ Running /\ Top.pc = "program" /\ Top.node = <<1>>
    /\ typings.calls = 2
    /\ typings.node = <<1>>
    /\ typings.op = "installTypings" /\ typings.types = TypePackages

\* n or a project from which n is reached
AtOrAbove(a, n) == a = n \/ Descendant(n, a)

\* C17: a fault of the typings installer is not turned into a call that
\* returns nothing: no call on the path from the root to the faulting
\* project returns or visits, every call is given up, from then on nothing
\* is drawn, emitted, visited or processed, and the run ends rejected with
\* a non-zero exit code.
C17_TypingsFaultRejectsRun ==
    /\ [](fault.kind = "typings" =>
            /\ stack = <<>>
            /\ pc \in {"rejected", "failed"}
            /\ pc = "failed" => exitCode # NoCode
            /\ fault.node \notin DOMAIN programs
            /\ \A n \in DOMAIN returned : ~AtOrAbove(n, fault.node)
            /\ \A i \in DOMAIN visits : ~AtOrAbove(visits[i].node, fault.node))
    /\ [][fault.kind = "typings" =>
            /\ UNCHANGED <<counter, out, stack, typings, options>>
            /\ UNCHANGED hist]_vars

C17_Witness ==
    /\ fault = [kind |-> "typings", node |-> <<2>>]
    /\ pc = "failed"
    /\ exitCode = ExitRejected
    /\ <<1>> \in DOMAIN returned
    /\ Len(out) >= 1

\* C18: a run that gets to its constructions makes one identifier
\* generator, one emitter, one Import Linker and one typings installer, and
\* an Export Linker exactly when it read a package manifest; no run makes
\* more, and every processProject call, the recursive ones included, has
\* got exactly these objects.
C18_OneOfEach ==
    /\ \A x \in DOMAIN made : made[x] <= 1
    /\ made.exportLinker = 1 => packageJson
    /\ sink = "open" =>
          /\ made.idGenerator = 1 /\ made.emitter = 1 /\ made.importLinker = 1
          /\ made.typingsInstaller = 1
          /\ made.exportLinker = 1 <=> packageJson
          /\ exportLinker <=> packageJson
    /\ \A k \in DOMAIN stack : stack[k].shared = Shared(made)

C18_Witness ==
    /\ Len(stack) = 3
    /\ packageJson
    /\ stack[3].shared = stack[1].shared
    /\ stack[3].shared.exportLinker = 1 /\ stack[3].shared.idGenerator = 1
    /\ Len(drawn) >= 1

\* C19: a request for a file that is missing or cannot be read is answered
\* with absent and leaves the map as it was; an entry is made exactly when a
\* read succeeded, so absent never comes out of the map and may be followed
\* by a snapshot for the same project; a snapshot is followed only by the
\* same snapshot; no request raises a fault.
C19_AbsentNotCached ==
    /\ \A i \in DOMAIN requests :
          LET r == requests[i] IN
          /\ ~r.hit /\ (r.disk = 0 \/ ~r.readable) => r.answer = Absent /\ ~r.kept
          /\ r.kept <=> r.answer.present
          /\ r.answer = Absent => ~r.hit
          /\ r.hit => r.kept
    /\ \A i, j \in DOMAIN requests :
          /\ i < j
          /\ requests[i].node = requests[j].node
          /\ requests[i].file = requests[j].file
          /\ requests[i].answer.present
          => requests[j].answer = requests[i].answer /\ requests[j].hit
    /\ Len(requests) > 0 => fault = NoFault /\ pc \in {"running", "done"}

C19_Witness ==
    \E i, j \in DOMAIN requests :
        /\ i < j
        /\ requests[i].node = requests[j].node
        /\ requests[i].file = requests[j].file
        /\ requests[i].answer = Absent /\ requests[i].disk # 0 /\ ~requests[i].readable
        /\ requests[j].answer.present

\* the shared state other than the exit code is left as it is
SharedStateKept ==
    /\ UNCHANGED <<counter, out, options, typings, made, exportLinker, sink, opens>>
    /\ UNCHANGED <<drawn, emitted, visits, programs>>

\* C20: the checks of the configuration file and of the input files, which
\* are all a call does that is aborted there, leave the counter, the
\* output, the shared options, the installer and the shared objects as they
\* are; a root call aborted there ends the run with the roots of the
\* options not made absolute, nothing drawn or written and no installer
\* call.
C20_ConfigAbortKeepsSharedState ==
    /\ [][Running /\ Top.pc \in {"resolve", "files"} => SharedStateKept]_vars
    /\ [](/\ <<>> \in DOMAIN returned
          /\ returned[<<>>].why \in {"missing", "nofiles"}
          => /\ options.projectRoot # "absolute"
             /\ options.repositoryRoot # "absolute"
             /\ counter = CounterStart
             /\ out = <<>>
             /\ typings = NoTypings
             /\ exitCode # NoCode)

C20_Witness ==
    /\ pc = "done"
    /\ <<2>> \in DOMAIN returned
    /\ returned[<<2>>].why = "nofiles"
    /\ Len(out) = 1 /\ emitted[1].node = <<1>>
    /\ options.inferTypings /\ typings.calls = 2

====
